---- MODULE Spec2Model ----
(***************************************************************************)
(* Model of api/index.go: the HTTP Handler that validates a combat request,*)
(* derives the hurt difficulty and runs the batch of dice trials.          *)
(*                                                                         *)
(* Go's int is a fixed-width two's-complement integer whose arithmetic     *)
(* wraps.  The model keeps that behaviour with a word of IntBits bits      *)
(* (scaled down from 64 so that the whole positive range can be            *)
(* enumerated); every product the code computes goes through Wrap.         *)
(***************************************************************************)
EXTENDS Integers, Sequences, FiniteSets, TLC

\* ---- bounds of the model ------------------------------------------------
IntBits == 6
MaxAttr == 3
MaxDice == 2
MaxRuns == 2
MaxCount == 2
MaxSides == 6
MaxWounds == 1

\* ---- constants of the program --------------------------------------------
MinStrength == 1
MinEndurance == 1
MinDiceNumber == 1
MinTouchDifficulty == 2
MaxTouchDifficulty == 6
MinArmorSave == 0
MaxArmorSave == 6
MinInvuSave == 0
MaxInvuSave == 6
MinRunNumber == 1
MaxRunNumber == 1000
DiceSides == 6
StatusOK == 200
StatusBadRequest == 400
StatusMethodNotAllowed == 405

VARIABLES
    pc,                          \* position of the handler goroutine
    request,                     \* the request being served
    status,                      \* HTTP status written to w (0: nothing yet)
    errField,                    \* field named by the error body ("" if none)
    responseBody,                \* results written by Fprintf
    params,                      \* value returned by getParamsFromRequest
    i,                           \* loop index of runAll
    allResults,                  \* allResults of runAll
    calls,                       \* number of runOnce calls made so far
    numberOfTouches,             \* runOnce local
    numberOfHurts,               \* runOnce local
    numberOfHurtsAfterArmorSave, \* getNumberOfHurtsAfterSave local
    numberOfHurtsAfterInvuSave,  \* getNumberOfHurtsAfterSave local / finalHurts
    draws,                       \* <<stage, number of dice it drew>>, per stage of this trial
    fnArgs,                      \* direct call of one function: its arguments
    fnRet                        \* direct call of one function: its result

srvVars == <<pc, request, status, errField, responseBody, params, i, allResults,
             calls, numberOfTouches, numberOfHurts, numberOfHurtsAfterArmorSave,
             numberOfHurtsAfterInvuSave, draws>>
fnVars == <<fnArgs, fnRet>>
vars == <<pc, request, status, errField, responseBody, params, i, allResults,
          calls, numberOfTouches, numberOfHurts, numberOfHurtsAfterArmorSave,
          numberOfHurtsAfterInvuSave, draws, fnArgs, fnRet>>

\* ---- Go int arithmetic ----------------------------------------------------
RECURSIVE Pow2(_)
Pow2(n) == IF n = 0 THEN 1 ELSE 2 * Pow2(n - 1)

MaxInt == Pow2(IntBits - 1) - 1

Wrap(x) == ((x + Pow2(IntBits - 1)) % Pow2(IntBits)) - Pow2(IntBits - 1)

Mul(a, b) == Wrap(a * b)

\* ---- dice -------------------------------------------------------------------
rollDiceNoShift(sides) == 0 .. (sides - 1)

\* rand.IntN(sides) is any value of [0, sides)
rollDice(sides) == {n + 1 : n \in 0 .. (sides - 1)}

rollDicesNoPlusOne(numberOfDices, sides) ==
    [1 .. numberOfDices -> rollDice(sides)]

rollDicesOneMore(numberOfDices, sides) ==
    {[k \in 1 .. (numberOfDices + 1) |-> d[k] + 1] :
        d \in [1 .. (numberOfDices + 1) -> rollDice(sides)]}

rollDices(numberOfDices, sides) ==
    {[k \in 1 .. numberOfDices |-> d[k] + 1] :
        d \in [1 .. numberOfDices -> rollDice(sides)]}

\* ---- difficulty ---------------------------------------------------------------
getDifficulty(strength, endurance) ==
    IF strength >= Mul(endurance, 2) THEN 2
    ELSE IF strength > endurance THEN 3
    ELSE IF Mul(strength, 2) <= endurance THEN 6
    ELSE IF strength < endurance THEN 5
    ELSE 4

\* ---- stage filters --------------------------------------------------------------
\* for _, result := range dicesResults { if result >= difficulty { n++ } }
RECURSIVE CountSuccessesStrict(_, _)
CountSuccessesStrict(dicesResults, difficulty) ==
    IF dicesResults = <<>> THEN 0
    ELSE (IF Head(dicesResults) > difficulty THEN 1 ELSE 0)
         + CountSuccessesStrict(Tail(dicesResults), difficulty)

RECURSIVE CountSuccesses(_, _)
CountSuccesses(dicesResults, difficulty) ==
    IF dicesResults = <<>> THEN 0
    ELSE (IF Head(dicesResults) >= difficulty THEN 1 ELSE 0)
         + CountSuccesses(Tail(dicesResults), difficulty)

getNumberOfTouches(p, numberOfDices) ==
    {[dicesResults |-> d,
      count |-> CountSuccesses(d, p.TouchDifficulty)] :
        d \in rollDices(numberOfDices, DiceSides)}

getNumberOfHurtsAllDice(p, numberOfDices) ==
    {[dicesResults |-> d,
      count |-> CountSuccesses(d, p.HurtDifficulty)] :
        d \in rollDices(p.DiceNumber, DiceSides)}

getNumberOfHurts(p, numberOfDices) ==
    {[dicesResults |-> d,
      count |-> CountSuccesses(d, p.HurtDifficulty)] :
        d \in rollDices(numberOfDices, DiceSides)}

\* ---- save stages ------------------------------------------------------------------
\* if rollDice(6) < save { n++ }
RECURSIVE CountUnsavedInclusive(_, _)
CountUnsavedInclusive(saveRolls, save) ==
    IF saveRolls = <<>> THEN 0
    ELSE (IF Head(saveRolls) <= save THEN 1 ELSE 0)
         + CountUnsavedInclusive(Tail(saveRolls), save)

RECURSIVE CountUnsaved(_, _)
CountUnsaved(saveRolls, save) ==
    IF saveRolls = <<>> THEN 0
    ELSE (IF Head(saveRolls) < save THEN 1 ELSE 0)
         + CountUnsaved(Tail(saveRolls), save)

saveStageAlwaysRolls(save, incoming) ==
    {[saveRolls |-> r, count |-> CountUnsaved(r, save)] :
        r \in [1 .. incoming -> rollDice(DiceSides)]}

\* one save pass: the if/else around the loop drawing one d6 per wound
saveStage(save, incoming) ==
    IF save >= 1
    THEN {[saveRolls |-> r, count |-> CountUnsaved(r, save)] :
            r \in [1 .. incoming -> rollDice(DiceSides)]}
    ELSE {[saveRolls |-> <<>>, count |-> incoming]}

getNumberOfHurtsAfterSave(p, hurts) ==
    UNION {{[armorRolls |-> a.saveRolls,
             numberOfHurtsAfterArmorSave |-> a.count,
             invuRolls |-> v.saveRolls,
             numberOfHurtsAfterInvuSave |-> v.count] :
                v \in saveStage(p.InvuSave, a.count)} :
           a \in saveStage(p.ArmorSave, hurts)}

\* ---- request decoding and validation ------------------------------------------------
FieldNames == <<"Strength", "Endurance", "DiceNumber", "TouchDifficulty",
                "ArmorSave", "InvuSave", "RunNumber">>

\* the validate:"..." tags of requestBody, in declaration order
FieldTags ==
    [Strength        |-> [required |-> TRUE,  min |-> MinStrength,
                          hasMax |-> FALSE, max |-> 0],
     Endurance       |-> [required |-> TRUE,  min |-> MinEndurance,
                          hasMax |-> FALSE, max |-> 0],
     DiceNumber      |-> [required |-> TRUE,  min |-> MinDiceNumber,
                          hasMax |-> FALSE, max |-> 0],
     TouchDifficulty |-> [required |-> TRUE,  min |-> MinTouchDifficulty,
                          hasMax |-> TRUE,  max |-> MaxTouchDifficulty],
     ArmorSave       |-> [required |-> FALSE, min |-> MinArmorSave,
                          hasMax |-> TRUE,  max |-> MaxArmorSave],
     InvuSave        |-> [required |-> FALSE, min |-> MinInvuSave,
                          hasMax |-> TRUE,  max |-> MaxInvuSave],
     RunNumber       |-> [required |-> TRUE,  min |-> MinRunNumber,
                          hasMax |-> TRUE,  max |-> MaxRunNumber]]

validateFieldNoMax(tags, value) ==
    IF tags.required /\ value = 0 THEN "required"
    ELSE IF value < tags.min THEN "min"
    ELSE ""

\* the tags of one field are tried in order and the first failing one is
\* reported; "required" on an int fails on the zero value
validateField(tags, value) ==
    IF tags.required /\ value = 0 THEN "required"
    ELSE IF value < tags.min THEN "min"
    ELSE IF tags.hasMax /\ value > tags.max THEN "max"
    ELSE ""

\* validate.Struct(body): the field errors, in field order
validateStruct(body) ==
    LET all == [k \in 1 .. Len(FieldNames) |->
                   [field |-> FieldNames[k],
                    tag |-> validateField(FieldTags[FieldNames[k]],
                                          body[FieldNames[k]])]]
    IN SelectSeq(all, LAMBDA e : e.tag # "")

\* the loop returns on its first iteration, whatever the tag
formatValidationError(validationErrors) == validationErrors[1].field

ZeroParams ==
    [DiceNumber |-> 0, TouchDifficulty |-> 0, HurtDifficulty |-> 0,
     ArmorSave |-> 0, InvuSave |-> 0, RunNumber |-> 0]

getParamsFromRequest(r) ==
    IF ~r.decodable
    THEN [err |-> "invalid JSON body", field |-> "", params |-> ZeroParams]
    ELSE IF validateStruct(r.body) # <<>>
    THEN [err |-> "validation", field |-> formatValidationError(validateStruct(r.body)),
          params |-> ZeroParams]
    ELSE [err |-> "", field |-> "",
          params |-> [TouchDifficulty |-> r.body.TouchDifficulty,
                      HurtDifficulty |-> getDifficulty(r.body.Strength, r.body.Endurance),
                      ArmorSave |-> r.body.ArmorSave,
                      InvuSave |-> r.body.InvuSave,
                      RunNumber |-> r.body.RunNumber,
                      DiceNumber |-> r.body.DiceNumber]]

\* ---- requests the handler is driven with -----------------------------------------
ZeroBody ==
    [Strength |-> 0, Endurance |-> 0, DiceNumber |-> 0, TouchDifficulty |-> 0,
     ArmorSave |-> 0, InvuSave |-> 0, RunNumber |-> 0]

Bodies ==
    [Strength        : 0 .. MaxAttr,
     Endurance       : 0 .. MaxAttr,
     DiceNumber      : 0 .. MaxDice,
     TouchDifficulty : {MinTouchDifficulty - 1, MinTouchDifficulty,
                        MaxTouchDifficulty, MaxTouchDifficulty + 1},
     ArmorSave       : {MinArmorSave - 1, MinArmorSave, MinArmorSave + 1,
                        MaxArmorSave - 2, MaxArmorSave, MaxArmorSave + 1},
     InvuSave        : {MinInvuSave - 1, MinInvuSave, MinInvuSave + 1,
                        MaxInvuSave - 2, MaxInvuSave, MaxInvuSave + 1},
     RunNumber       : (0 .. MaxRuns) \cup {MaxRunNumber + 1}]

Requests ==
    {[method |-> m, decodable |-> TRUE, body |-> b] :
        m \in {"POST", "GET"}, b \in Bodies}
    \cup {[method |-> m, decodable |-> FALSE, body |-> ZeroBody] :
        m \in {"POST", "GET"}}

NoCall == [fn |-> "none"]
NoDraws == <<>>

Init ==
    /\ pc = "idle"
    /\ request = [method |-> "", decodable |-> FALSE, body |-> ZeroBody]
    /\ status = 0
    /\ errField = ""
    /\ responseBody = <<>>
    /\ params = ZeroParams
    /\ i = 0
    /\ allResults = <<>>
    /\ calls = 0
    /\ numberOfTouches = 0
    /\ numberOfHurts = 0
    /\ numberOfHurtsAfterArmorSave = 0
    /\ numberOfHurtsAfterInvuSave = 0
    /\ draws = NoDraws
    /\ fnArgs = NoCall
    /\ fnRet = NoCall

locals == <<numberOfTouches, numberOfHurts, numberOfHurtsAfterArmorSave,
            numberOfHurtsAfterInvuSave, draws>>

\* Handler up to the call of runAll
Handler ==
    /\ pc = "idle"
    /\ \E r \in Requests :
        /\ request' = r
        /\ IF r.method # "POST"
           THEN /\ status' = StatusMethodNotAllowed
                /\ errField' = ""
                /\ pc' = "done"
                /\ UNCHANGED params
           ELSE LET res == getParamsFromRequest(r) IN
                IF res.err # ""
                THEN /\ status' = StatusBadRequest
                     /\ errField' = res.field
                     /\ pc' = "done"
                     /\ UNCHANGED params
                ELSE /\ params' = res.params
                     /\ pc' = "runAll"
                     /\ UNCHANGED <<status, errField>>
    /\ i' = 0
    /\ allResults' = <<>>
    /\ UNCHANGED <<responseBody, calls, locals, fnVars>>

runAllContinuesInclusive(index, p) == index <= p.RunNumber

\* the loop condition of runAll
runAllContinues(index, p) == index < p.RunNumber

\* runAll: loop test, then either the call of runOnce or the return
RunAllLoop ==
    /\ pc = "runAll"
    /\ IF runAllContinues(i, params)
       THEN /\ pc' = "touch"
            /\ calls' = calls + 1
       ELSE /\ pc' = "respond"
            /\ UNCHANGED calls
    /\ UNCHANGED <<request, status, errField, responseBody, params, i,
                   allResults, locals, fnVars>>

\* runOnce line 1
GetNumberOfTouches ==
    /\ pc = "touch"
    /\ \E res \in getNumberOfTouches(params, params.DiceNumber) :
        /\ numberOfTouches' = res.count
        /\ draws' = Append(draws, <<"touch", Len(res.dicesResults)>>)
    /\ pc' = "hurt"
    /\ UNCHANGED <<request, status, errField, responseBody, params, i,
                   allResults, calls, numberOfHurts,
                   numberOfHurtsAfterArmorSave, numberOfHurtsAfterInvuSave,
                   fnVars>>

\* runOnce line 2
GetNumberOfHurts ==
    /\ pc = "hurt"
    /\ \E res \in getNumberOfHurts(params, numberOfTouches) :
        /\ numberOfHurts' = res.count
        /\ draws' = Append(draws, <<"hurt", Len(res.dicesResults)>>)
    /\ pc' = "armor"
    /\ UNCHANGED <<request, status, errField, responseBody, params, i,
                   allResults, calls, numberOfTouches,
                   numberOfHurtsAfterArmorSave, numberOfHurtsAfterInvuSave,
                   fnVars>>

\* getNumberOfHurtsAfterSave, armor pass
ArmorSave ==
    /\ pc = "armor"
    /\ \E res \in saveStage(params.ArmorSave, numberOfHurts) :
        /\ numberOfHurtsAfterArmorSave' = res.count
        /\ draws' = Append(draws, <<"armor", Len(res.saveRolls)>>)
    /\ pc' = "invu"
    /\ UNCHANGED <<request, status, errField, responseBody, params, i,
                   allResults, calls, numberOfTouches, numberOfHurts,
                   numberOfHurtsAfterInvuSave, fnVars>>

\* getNumberOfHurtsAfterSave, invulnerability pass
InvuSave ==
    /\ pc = "invu"
    /\ \E res \in saveStage(params.InvuSave, numberOfHurtsAfterArmorSave) :
        /\ numberOfHurtsAfterInvuSave' = res.count
        /\ draws' = Append(draws, <<"invu", Len(res.saveRolls)>>)
    /\ pc' = "ret"
    /\ UNCHANGED <<request, status, errField, responseBody, params, i,
                   allResults, calls, numberOfTouches, numberOfHurts,
                   numberOfHurtsAfterArmorSave, fnVars>>

\* runOnce returns finalHurts; runAll appends it and increments i
RunOnceReturn ==
    /\ pc = "ret"
    /\ allResults' = Append(allResults, numberOfHurtsAfterInvuSave)
    /\ i' = i + 1
    /\ numberOfTouches' = 0
    /\ numberOfHurts' = 0
    /\ numberOfHurtsAfterArmorSave' = 0
    /\ numberOfHurtsAfterInvuSave' = 0
    /\ draws' = NoDraws
    /\ pc' = "runAll"
    /\ UNCHANGED <<request, status, errField, responseBody, params, calls,
                   fnVars>>

\* Handler after runAll: Fprintf of the results
Respond ==
    /\ pc = "respond"
    /\ status' = StatusOK
    /\ responseBody' = allResults
    /\ pc' = "done"
    /\ UNCHANGED <<request, errField, params, i, allResults, calls, locals,
                   fnVars>>

Next ==
    \/ Handler
    \/ RunAllLoop
    \/ GetNumberOfTouches
    \/ GetNumberOfHurts
    \/ ArmorSave
    \/ InvuSave
    \/ RunOnceReturn
    \/ Respond

Spec == Init /\ [][Next]_vars

\* ---- direct calls of the functions, on arguments of their whole domain --------------
CallArgs ==
    {[fn |-> "getDifficulty", strength |-> s, endurance |-> e] :
        s \in 1 .. MaxInt, e \in 1 .. MaxInt}
    \cup {[fn |-> "rollDice", sides |-> n] : n \in 1 .. MaxSides}
    \cup {[fn |-> "rollDices", numberOfDices |-> c, sides |-> n] :
        c \in 0 .. MaxCount, n \in 1 .. MaxSides}
    \cup {[fn |-> "getNumberOfTouches", numberOfDices |-> c,
           params |-> [ZeroParams EXCEPT !.TouchDifficulty = t]] :
        c \in 0 .. MaxCount, t \in MinTouchDifficulty .. MaxTouchDifficulty}
    \cup {[fn |-> "getNumberOfHurts", numberOfDices |-> c,
           params |-> [ZeroParams EXCEPT !.HurtDifficulty = t]] :
        c \in 0 .. MaxCount, t \in 2 .. 6}
    \cup {[fn |-> "getNumberOfHurtsAfterSave", numberOfHurts |-> c,
           params |-> [ZeroParams EXCEPT !.ArmorSave = a, !.InvuSave = v]] :
        c \in 0 .. MaxWounds, a \in MinArmorSave .. MaxArmorSave,
        v \in MinInvuSave .. MaxInvuSave}

InitCalls ==
    /\ pc = "idle"
    /\ request = [method |-> "", decodable |-> FALSE, body |-> ZeroBody]
    /\ status = 0
    /\ errField = ""
    /\ responseBody = <<>>
    /\ params = ZeroParams
    /\ i = 0
    /\ allResults = <<>>
    /\ calls = 0
    /\ numberOfTouches = 0
    /\ numberOfHurts = 0
    /\ numberOfHurtsAfterArmorSave = 0
    /\ numberOfHurtsAfterInvuSave = 0
    /\ draws = NoDraws
    /\ fnArgs \in CallArgs
    /\ fnRet = NoCall

CallGetDifficulty ==
    /\ fnArgs.fn = "getDifficulty" /\ fnRet.fn = "none"
    /\ fnRet' = [fn |-> "getDifficulty",
                 value |-> getDifficulty(fnArgs.strength, fnArgs.endurance)]
    /\ UNCHANGED <<srvVars, fnArgs>>

CallRollDice ==
    /\ fnArgs.fn = "rollDice" /\ fnRet.fn = "none"
    /\ \E v \in rollDice(fnArgs.sides) :
        fnRet' = [fn |-> "rollDice", value |-> v]
    /\ UNCHANGED <<srvVars, fnArgs>>

CallRollDices ==
    /\ fnArgs.fn = "rollDices" /\ fnRet.fn = "none"
    /\ \E v \in rollDices(fnArgs.numberOfDices, fnArgs.sides) :
        fnRet' = [fn |-> "rollDices", value |-> v]
    /\ UNCHANGED <<srvVars, fnArgs>>

CallGetNumberOfTouches ==
    /\ fnArgs.fn = "getNumberOfTouches" /\ fnRet.fn = "none"
    /\ \E v \in getNumberOfTouches(fnArgs.params, fnArgs.numberOfDices) :
        fnRet' = [fn |-> "getNumberOfTouches", value |-> v]
    /\ UNCHANGED <<srvVars, fnArgs>>

CallGetNumberOfHurts ==
    /\ fnArgs.fn = "getNumberOfHurts" /\ fnRet.fn = "none"
    /\ \E v \in getNumberOfHurts(fnArgs.params, fnArgs.numberOfDices) :
        fnRet' = [fn |-> "getNumberOfHurts", value |-> v]
    /\ UNCHANGED <<srvVars, fnArgs>>

CallGetNumberOfHurtsAfterSave ==
    /\ fnArgs.fn = "getNumberOfHurtsAfterSave" /\ fnRet.fn = "none"
    /\ \E v \in getNumberOfHurtsAfterSave(fnArgs.params, fnArgs.numberOfHurts) :
        fnRet' = [fn |-> "getNumberOfHurtsAfterSave", value |-> v]
    /\ UNCHANGED <<srvVars, fnArgs>>

NextCalls ==
    \/ CallGetDifficulty
    \/ CallRollDice
    \/ CallRollDices
    \/ CallGetNumberOfTouches
    \/ CallGetNumberOfHurts
    \/ CallGetNumberOfHurtsAfterSave

SpecCalls == InitCalls /\ [][NextCalls]_vars

\* ---- properties ------------------------------------------------------------------------
TrialPcs == {"touch", "hurt", "armor", "invu", "ret"}

\* the decision table of the difficulty, in exact arithmetic
DifficultyTable(s, e) ==
    IF s >= 2 * e THEN 2
    ELSE IF s > e THEN 3
    ELSE IF s * 2 <= e THEN 6
    ELSE IF s < e THEN 5
    ELSE 4

\* C1: for every pair of positive integers getDifficulty returns the value of
\* the first matching row of the table, a value of 2..6, and 4 exactly when
\* strength equals endurance.
C1_DifficultyFollowsTable ==
    fnRet.fn = "getDifficulty" =>
        /\ fnRet.value = DifficultyTable(fnArgs.strength, fnArgs.endurance)
        /\ fnRet.value \in 2 .. 6
        /\ (fnRet.value = 4 <=> fnArgs.strength = fnArgs.endurance)

C2_Counts ==
    (pc \in TrialPcs \cup {"runAll", "respond"} \/ status = StatusOK) =>
        /\ Len(allResults) = i
        /\ i <= params.RunNumber
        /\ \A k \in DOMAIN allResults :
              allResults[k] \in 0 .. params.DiceNumber
        /\ calls = i + (IF pc \in TrialPcs THEN 1 ELSE 0)
        /\ (pc = "respond" \/ status = StatusOK) =>
              /\ Len(allResults) = params.RunNumber
              /\ calls = params.RunNumber
        /\ status = StatusOK => responseBody = allResults

\* steps runAll still has to take before it returns
RunAllRank ==
    6 * (params.RunNumber - i)
    + (CASE pc = "runAll" -> 6
         [] pc = "touch" -> 5
         [] pc = "hurt" -> 4
         [] pc = "armor" -> 3
         [] pc = "invu" -> 2
         [] pc = "ret" -> 1
         [] OTHER -> 0)

C2_RankDecreases ==
    pc \in TrialPcs \cup {"runAll"} =>
        /\ RunAllRank' < RunAllRank
        /\ RunAllRank' >= 0

C2_AppendsInCallOrder ==
    pc = "ret" => allResults' = Append(allResults, numberOfHurtsAfterInvuSave)

\* C2: for validated parameters with runNumber = N, runAll terminates (it can
\* always take a step and every step lowers a non-negative rank) after exactly
\* N calls of runOnce and returns exactly N outcomes, in call order, each of
\* them in 0..diceNumber, whatever the dice show.
C2_RunAllReturnsN ==
    /\ []C2_Counts
    /\ [](pc \in TrialPcs \cup {"runAll"} => (RunAllRank > 0 /\ ENABLED Next))
    /\ [][C2_RankDecreases]_vars
    /\ [][C2_AppendsInCallOrder]_vars

C2_Witness ==
    /\ pc = "done" /\ status = StatusOK
    /\ Len(responseBody) >= 2
    /\ responseBody[1] = 2 /\ responseBody[2] = 0

\* C3: in a save stage with threshold t >= 1 exactly one d6 is drawn per
\* incoming wound and the wound passes if and only if its roll is strictly
\* less than t (with t = 6: rolls 1..5 pass, a roll of 6 is absorbed).
C3_SavePassesBelowThreshold ==
    fnRet.fn = "getNumberOfHurtsAfterSave" =>
        LET r == fnRet.value
            p == fnArgs.params
        IN /\ p.ArmorSave >= 1 =>
                /\ Len(r.armorRolls) = fnArgs.numberOfHurts
                /\ \A k \in DOMAIN r.armorRolls : r.armorRolls[k] \in 1 .. 6
                /\ r.numberOfHurtsAfterArmorSave =
                      Cardinality({k \in DOMAIN r.armorRolls :
                                      r.armorRolls[k] < p.ArmorSave})
           /\ p.InvuSave >= 1 =>
                /\ Len(r.invuRolls) = r.numberOfHurtsAfterArmorSave
                /\ \A k \in DOMAIN r.invuRolls : r.invuRolls[k] \in 1 .. 6
                /\ r.numberOfHurtsAfterInvuSave =
                      Cardinality({k \in DOMAIN r.invuRolls :
                                      r.invuRolls[k] < p.InvuSave})

C3_Witness ==
    /\ fnRet.fn = "getNumberOfHurtsAfterSave"
    /\ fnArgs.params.ArmorSave = 6 /\ fnArgs.params.InvuSave = 6
    /\ fnArgs.numberOfHurts = 1
    /\ fnRet.value.armorRolls = <<5>>
    /\ fnRet.value.numberOfHurtsAfterArmorSave = 1
    /\ fnRet.value.invuRolls = <<6>>
    /\ fnRet.value.numberOfHurtsAfterInvuSave = 0

\* C4: a save stage whose threshold is 0 draws no dice and passes every wound:
\* the count leaving it equals the count entering it; with both thresholds 0
\* the outcome of the trial is the hurt-stage count.
C4_ZeroSaveIsNoOp ==
    /\ (pc \in {"invu", "ret"} /\ params.ArmorSave = 0) =>
          /\ numberOfHurtsAfterArmorSave = numberOfHurts
          /\ draws[3] = <<"armor", 0>>
    /\ (pc = "ret" /\ params.InvuSave = 0) =>
          /\ numberOfHurtsAfterInvuSave = numberOfHurtsAfterArmorSave
          /\ draws[4] = <<"invu", 0>>
    /\ (pc = "ret" /\ params.ArmorSave = 0 /\ params.InvuSave = 0) =>
          numberOfHurtsAfterInvuSave = numberOfHurts

C4_Witness ==
    /\ pc = "ret" /\ params.ArmorSave = 0 /\ params.InvuSave = 0
    /\ numberOfHurts = 2 /\ numberOfHurtsAfterInvuSave = 2

\* C5: for diceNumber >= 0 and touchDifficulty in 2..6, getNumberOfTouches
\* draws exactly diceNumber dice and returns the number of them that are
\* >= touchDifficulty, a value of 0..diceNumber.
C5_TouchCount ==
    fnRet.fn = "getNumberOfTouches" =>
        /\ Len(fnRet.value.dicesResults) = fnArgs.numberOfDices
        /\ fnRet.value.count =
              Cardinality({k \in DOMAIN fnRet.value.dicesResults :
                  fnRet.value.dicesResults[k] >= fnArgs.params.TouchDifficulty})
        /\ fnRet.value.count \in 0 .. fnArgs.numberOfDices

C5_Witness ==
    /\ fnRet.fn = "getNumberOfTouches"
    /\ fnArgs.params.TouchDifficulty = 6
    /\ fnRet.value.dicesResults = <<6, 5>>
    /\ fnRet.value.count = 1

\* C6: rollDice(sides) is in 1..sides; rollDices(count, sides) has exactly
\* count values, each one single draw plus 1, so in 2..sides+1; the values
\* the touch and hurt stages compare are in 2..7, those the save stages
\* compare are in 1..6.
C6_DiceRanges ==
    /\ fnRet.fn = "rollDice" => fnRet.value \in 1 .. fnArgs.sides
    /\ fnRet.fn = "rollDices" =>
          /\ Len(fnRet.value) = fnArgs.numberOfDices
          /\ \A k \in DOMAIN fnRet.value :
                /\ fnRet.value[k] - 1 \in 1 .. fnArgs.sides
                /\ fnRet.value[k] \in 2 .. (fnArgs.sides + 1)
    /\ fnRet.fn \in {"getNumberOfTouches", "getNumberOfHurts"} =>
          \A k \in DOMAIN fnRet.value.dicesResults :
              fnRet.value.dicesResults[k] \in 2 .. 7
    /\ fnRet.fn = "getNumberOfHurtsAfterSave" =>
          /\ \A k \in DOMAIN fnRet.value.armorRolls :
                fnRet.value.armorRolls[k] \in 1 .. 6
          /\ \A k \in DOMAIN fnRet.value.invuRolls :
                fnRet.value.invuRolls[k] \in 1 .. 6

C6_Witness ==
    /\ fnRet.fn = "rollDices"
    /\ fnArgs.sides = 6
    /\ fnRet.value = <<2, 7>>

\* the field constraints as the interface states them
FieldInRange(f, v) ==
    CASE f = "Strength" -> v >= 1
      [] f = "Endurance" -> v >= 1
      [] f = "DiceNumber" -> v >= 1
      [] f = "TouchDifficulty" -> v \in 2 .. 6
      [] f = "ArmorSave" -> v \in 0 .. 6
      [] f = "InvuSave" -> v \in 0 .. 6
      [] f = "RunNumber" -> v \in 1 .. 1000

BodyInRange(b) ==
    \A k \in DOMAIN FieldNames : FieldInRange(FieldNames[k], b[FieldNames[k]])

FirstOffendingField(b) ==
    LET bad == {k \in DOMAIN FieldNames :
                   ~FieldInRange(FieldNames[k], b[FieldNames[k]])}
    IN FieldNames[CHOOSE k \in bad : \A j \in bad : k <= j]

\* C7: the batch runs only for a POST request whose body satisfies every field
\* constraint; any other request ends in 405 (method) or 400 (undecodable, or
\* invalid and naming the first offending field) with no trial run; when
\* runAll is reached HurtDifficulty is getDifficulty(strength, endurance), in
\* 2..6, and the other fields of params are the request's.
C7_HandlerValidates ==
    LET b == request.body
        valid == /\ request.method = "POST"
                 /\ request.decodable
                 /\ BodyInRange(b)
    IN pc # "idle" =>
        /\ (calls > 0 \/ pc \in TrialPcs \cup {"runAll", "respond"}
              \/ status = StatusOK) =>
              /\ valid
              /\ params = [DiceNumber |-> b.DiceNumber,
                           TouchDifficulty |-> b.TouchDifficulty,
                           HurtDifficulty |-> getDifficulty(b.Strength, b.Endurance),
                           ArmorSave |-> b.ArmorSave,
                           InvuSave |-> b.InvuSave,
                           RunNumber |-> b.RunNumber]
              /\ params.HurtDifficulty \in 2 .. 6
        /\ ~valid =>
              /\ pc = "done"
              /\ calls = 0
              /\ allResults = <<>>
              /\ responseBody = <<>>
              /\ status = (IF request.method # "POST" THEN 405 ELSE 400)
              /\ errField = (IF request.method = "POST" /\ request.decodable
                             THEN FirstOffendingField(b) ELSE "")

C7_Witness ==
    /\ pc = "done" /\ status = StatusBadRequest
    /\ request.body.Strength = 1 /\ request.body.Endurance = 1
    /\ request.body.DiceNumber = 1
    /\ request.body.TouchDifficulty = 7
    /\ request.body.RunNumber = 1001
    /\ errField = "TouchDifficulty"

\* C8: when the touch stage yields 0 touches, the hurt stage draws 0 dice and
\* yields 0 hurts, both save stages draw no dice, and runOnce returns 0.
C8_ZeroTouches ==
    numberOfTouches = 0 =>
        /\ pc \in {"armor", "invu", "ret"} =>
              /\ draws[2] = <<"hurt", 0>>
              /\ numberOfHurts = 0
        /\ pc \in {"invu", "ret"} =>
              /\ draws[3] = <<"armor", 0>>
              /\ numberOfHurtsAfterArmorSave = 0
        /\ pc = "ret" =>
              /\ draws[4] = <<"invu", 0>>
              /\ numberOfHurtsAfterInvuSave = 0

C8_Witness ==
    /\ pc = "ret" /\ numberOfTouches = 0
    /\ params.DiceNumber = 2
    /\ params.ArmorSave >= 1 /\ params.InvuSave >= 1
    /\ numberOfHurtsAfterInvuSave = 0

StagesDone ==
    CASE pc = "touch" -> 0
      [] pc = "hurt" -> 1
      [] pc = "armor" -> 2
      [] pc = "invu" -> 3
      [] pc = "ret" -> 4

\* C9: in every trial the stages run in the order touch, hurt, armor save,
\* invulnerability save, each drawing as many dice as the previous stage
\* produced (none when its threshold is 0), and the counts never increase:
\* 0 <= outcome <= after armor <= hurts <= touches <= diceNumber.
C9_StagesChainAndShrink ==
    pc \in TrialPcs =>
        LET expected ==
              << <<"touch", params.DiceNumber>>,
                 <<"hurt", numberOfTouches>>,
                 <<"armor", IF params.ArmorSave = 0 THEN 0 ELSE numberOfHurts>>,
                 <<"invu", IF params.InvuSave = 0 THEN 0
                           ELSE numberOfHurtsAfterArmorSave>> >>
        IN /\ draws = SubSeq(expected, 1, StagesDone)
           /\ 0 <= numberOfHurtsAfterInvuSave
           /\ numberOfHurtsAfterInvuSave <= numberOfHurtsAfterArmorSave
           /\ numberOfHurtsAfterArmorSave <= numberOfHurts
           /\ numberOfHurts <= numberOfTouches
           /\ numberOfTouches <= params.DiceNumber

C9_Witness ==
    /\ pc = "ret"
    /\ params.DiceNumber = 2 /\ numberOfTouches = 2
    /\ numberOfHurts = 1 /\ numberOfHurtsAfterArmorSave = 1
    /\ numberOfHurtsAfterInvuSave = 0
    /\ draws = << <<"touch", 2>>, <<"hurt", 2>>, <<"armor", 1>>, <<"invu", 1>> >>

\* C10: every batch-drawn die is at least 2, so with touchDifficulty = 2 the
\* touch count is diceNumber in every trial, and with hurtDifficulty = 2 and
\* both save thresholds 0 as well every outcome of runAll is diceNumber.
C10_DifficultyTwoNeverFails ==
    /\ (pc \in {"hurt", "armor", "invu", "ret"} /\ params.TouchDifficulty = 2) =>
          numberOfTouches = params.DiceNumber
    /\ (/\ pc # "idle"
        /\ params.TouchDifficulty = 2 /\ params.HurtDifficulty = 2
        /\ params.ArmorSave = 0 /\ params.InvuSave = 0) =>
          /\ \A k \in DOMAIN allResults : allResults[k] = params.DiceNumber
          /\ \A k \in DOMAIN responseBody : responseBody[k] = params.DiceNumber
          /\ pc = "ret" => numberOfHurtsAfterInvuSave = params.DiceNumber

C10_Witness ==
    /\ pc = "done" /\ status = StatusOK
    /\ params.TouchDifficulty = 2 /\ params.HurtDifficulty = 2
    /\ params.ArmorSave = 0 /\ params.InvuSave = 0
    /\ params.DiceNumber = 2
    /\ responseBody = <<2, 2>>

====
